---- MODULE Spec2Model ----
(***************************************************************************)
(* Keras ranking metrics of tensorflow_ranking/python/keras/metrics.py:    *)
(* the factory get, the metric classes with their get_config, and the      *)
(* streaming weighted mean that _RankingMetric inherits from               *)
(* tf.keras.metrics.Mean and feeds from metrics_impl's compute.            *)
(*                                                                         *)
(* Numbers are exact rationals <<n, d>> (d > 0, lowest terms).  All inputs *)
(* are small integers, on which the program's floating-point sums and      *)
(* products are exact as well.                                             *)
(***************************************************************************)
EXTENDS Integers, Sequences, FiniteSets, TLC

VARIABLES
  total_weighted_value, \* Mean.total: running sum of value * weight
  total_weight,         \* Mean.count: running sum of weight
  hist,                 \* ghost: the per-list (value, weight) fed since the last reset
  log,                  \* ghost: the last two calls since, and with, the last reset
  metric,               \* the metric object the caller holds
  ret,                  \* outcome of the last factory / constructor call
  config,               \* the record the last get_config returned
  call                  \* one call of the per-list NDCG algorithm

vars == <<total_weighted_value, total_weight, hist, log, metric, ret, config, call>>

-----------------------------------------------------------------------------
(* Bounds *)

MaxBatch == 2     \* lists per update_state call
MaxHist == 3      \* lists fed between two resets
MaxListSize == 3  \* items of a list given to the NDCG algorithm
MaxTopn == 2      \* largest cutoff asked of the factory and the constructors

-----------------------------------------------------------------------------
(* Exact rational arithmetic *)

Abs(x) == IF x < 0 THEN -x ELSE x

RECURSIVE GCD(_, _)
GCD(a, b) == IF b = 0 THEN a ELSE GCD(b, a % b)

Rat(n, d) ==
  LET g == GCD(Abs(n), Abs(d))
      s == IF d < 0 THEN -1 ELSE 1
  IN  <<(s * n) \div g, (s * d) \div g>>

Zero == <<0, 1>>
FromInt(i) == <<i, 1>>
RAdd(a, b) == Rat(a[1] * b[2] + b[1] * a[2], a[2] * b[2])
RMul(a, b) == Rat(a[1] * b[1], a[2] * b[2])

RECURSIVE RSum(_)
RSum(s) == IF s = <<>> THEN Zero ELSE RAdd(Head(s), RSum(Tail(s)))

\* tf.math.divide_no_nan: 0 where the denominator is 0
div_no_nan(a, b) == IF b[1] = 0 THEN Zero ELSE Rat(a[1] * b[2], a[2] * b[1])

Min(a, b) == IF a < b THEN a ELSE b

-----------------------------------------------------------------------------
(* Python values: None, int, str, float (in tenths), and a name Keras made up *)

None == [t |-> "none", i |-> 0, s |-> ""]
PyInt(n) == [t |-> "int", i |-> n, s |-> ""]
PyStr(x) == [t |-> "str", i |-> 0, s |-> x]
PyFloat(tenths) == [t |-> "float", i |-> tenths, s |-> ""]

-----------------------------------------------------------------------------
(* The streaming weighted mean: tf.keras.metrics.Mean under _RankingMetric *)

\* sample_weight tensors: None, a scalar (shape [1]) or one weight per list
NoWeight == [none |-> TRUE, data |-> <<>>]
Tensor(d) == [none |-> FALSE, data |-> d]

\* Broadcasting a sample_weight against a batch of B lists
Broadcast(sw, B) ==
  [i \in 1..B |-> IF sw.none THEN 1
                  ELSE IF Len(sw.data) = 1 THEN sw.data[1] ELSE sw.data[i]]

\* The domain of the model
Values == {Zero, <<1, 1>>}            \* per-list metric values
ListWeights == {0, 1, 2}              \* per-list weights of the algorithm
ExtWeights == {1, 2}                  \* external sample weights
PerList == [value : Values, weight : ListWeights]

SampleWeights(B) ==
  {NoWeight} \cup {Tensor(<<s>>) : s \in ExtWeights}
             \cup {Tensor(d) : d \in [1..B -> ExtWeights]}

\* self._metric.compute(y_true, y_pred, sample_weight): the per-list value and
\* weight of each list.  A list is given by what its algorithm yields at unit
\* external weight; the external weight of the list multiplies its weight.
compute(lists, sample_weight) ==
  LET w == Broadcast(sample_weight, Len(lists))
  IN  [values  |-> [i \in 1..Len(lists) |-> lists[i].value],
       weights |-> [i \in 1..Len(lists) |-> lists[i].weight * w[i]]]

\* Mean.update_state(values, sample_weight): total += sum(values * weights),
\* count += sum(weights), or the number of values when sample_weight is None
Mean_update_state(totals, values, sample_weight) ==
  LET n == Len(values)
      w == Broadcast(sample_weight, n)
      value_sum  == RSum([i \in 1..n |-> RMul(values[i], FromInt(w[i]))])
      num_values == IF sample_weight.none THEN FromInt(n)
                    ELSE RSum([i \in 1..n |-> FromInt(w[i])])
  IN  <<RAdd(totals[1], value_sum), RAdd(totals[2], num_values)>>

\* Faulty variants of update_state: the external weight applied a second
\* time, the per-list weights not handed on, the running totals dropped
update_state_twice(totals, lists, sample_weight) ==
  LET per_list == compute(lists, sample_weight)
      w == Broadcast(sample_weight, Len(lists))
  IN  Mean_update_state(totals, per_list.values,
        Tensor([i \in 1..Len(lists) |-> per_list.weights[i] * w[i]]))

update_state_unweighted(totals, lists, sample_weight) ==
  LET per_list == compute(lists, sample_weight)
  IN  Mean_update_state(totals, per_list.values, NoWeight)

update_state_batch_local(totals, lists, sample_weight) ==
  LET per_list == compute(lists, sample_weight)
  IN  Mean_update_state(<<Zero, Zero>>, per_list.values, Tensor(per_list.weights))

\* _RankingMetric.update_state
update_state(totals, lists, sample_weight) ==
  LET per_list == compute(lists, sample_weight)
  IN  Mean_update_state(totals, per_list.values, Tensor(per_list.weights))

\* Mean.result(): divide_no_nan(total, count)
result(totals) == div_no_nan(totals[1], totals[2])

\* Faulty variant of reset_states: count kept
reset_states_total_only(totals) == <<Zero, totals[2]>>

\* Mean.reset_states(): both variables back to zero
reset_states(totals) == <<Zero, Zero>>

\* The totals of a metric object as its constructor leaves them
NewTotals == <<Zero, Zero>>

totals == <<total_weighted_value, total_weight>>

Push(l, e) == IF Len(l) < 2 THEN Append(l, e) ELSE <<l[2], e>>

\* A logged call: n is the number of lists it fed (update_state) or dropped
\* (reset_states), pre the totals it found (not kept for reset_states), ret
\* what it returned (result)
Entry(op, n, pre, r) == [op |-> op, n |-> n, pre |-> pre, ret |-> r]

NoObject == [cls |-> "none"]
NoCall == [pc |-> "none"]
NoRet == [op |-> "none", kind |-> "none"]
NoConfig == [cls |-> "none"]

-----------------------------------------------------------------------------
(* The metric classes, their get_config, and the factory get *)

Absent == [t |-> "absent", i |-> 0, s |-> ""]
AutoName(x) == [t |-> "auto", i |-> 0, s |-> x]

\* Python dicts are functions from key strings to Python values
EmptyDict == [k \in {} |-> None]
DictUpdate(d, e) ==
  [k \in DOMAIN d \cup DOMAIN e |-> IF k \in DOMAIN e THEN e[k] ELSE d[k]]
Item(k, v) == [x \in {k} |-> v]

\* bool(v) of a Python value
Truthy(v) == \/ v.t \in {"int", "float"} /\ v.i # 0
             \/ v.t = "str" /\ v.s # ""

Classes ==
  {"MRRMetric", "ARPMetric", "PrecisionMetric", "RecallMetric",
   "PrecisionIAMetric", "MeanAveragePrecisionMetric", "NDCGMetric",
   "DCGMetric", "AlphaDCGMetric", "OPAMetric"}

\* class RankingMetricKey
RankingMetricKey ==
  [MRR |-> "mrr", ARP |-> "arp", NDCG |-> "ndcg", DCG |-> "dcg",
   PRECISION |-> "precision", MAP |-> "map", PRECISION_IA |-> "precision_ia",
   ORDERED_PAIR_ACCURACY |-> "ordered_pair_accuracy", ALPHA_DCG |-> "alpha_dcg"]

\* key_to_cls of get
key_to_cls ==
  (RankingMetricKey.MRR :> "MRRMetric") @@
  (RankingMetricKey.ARP :> "ARPMetric") @@
  (RankingMetricKey.PRECISION :> "PrecisionMetric") @@
  (RankingMetricKey.MAP :> "MeanAveragePrecisionMetric") @@
  (RankingMetricKey.NDCG :> "NDCGMetric") @@
  (RankingMetricKey.DCG :> "DCGMetric") @@
  (RankingMetricKey.ORDERED_PAIR_ACCURACY :> "OPAMetric")

\* The named parameters of each class's __init__, besides **kwargs
Params(cls) ==
  CASE cls \in {"ARPMetric", "OPAMetric"} -> {"name", "dtype"}
    [] cls = "AlphaDCGMetric" -> {"topn", "alpha", "seed", "dtype", "name"}
    [] OTHER -> {"name", "topn", "dtype"}

\* and their defaults
Default(cls, p) ==
  CASE p = "name" /\ cls = "PrecisionIAMetric" -> PyStr("precision_ia_metric")
    [] p = "name" /\ cls = "AlphaDCGMetric" -> PyStr("alpha_dcg_metric")
    [] p = "alpha" -> PyFloat(5)
    [] OTHER -> None

\* The name and dtype the Keras base class keeps: a name of its own making
\* (the class name in snake case) when none is given, float32 by default
SnakeCase(cls) ==
  CASE cls = "MRRMetric" -> "mrr_metric"
    [] cls = "ARPMetric" -> "arp_metric"
    [] cls = "PrecisionMetric" -> "precision_metric"
    [] cls = "RecallMetric" -> "recall_metric"
    [] cls = "PrecisionIAMetric" -> "precision_ia_metric"
    [] cls = "MeanAveragePrecisionMetric" -> "mean_average_precision_metric"
    [] cls = "NDCGMetric" -> "ndcg_metric"
    [] cls = "DCGMetric" -> "dcg_metric"
    [] cls = "AlphaDCGMetric" -> "alpha_dcg_metric"
    [] OTHER -> "opa_metric"

KerasName(cls, name) == IF Truthy(name) \/ name.t = "auto" THEN name ELSE AutoName(SnakeCase(cls))
KerasDType(dtype) == IF dtype = None THEN PyStr("float32") ELSE dtype

Outcome(kind, obj, msg, arg) == [kind |-> kind, obj |-> obj, msg |-> msg, arg |-> arg]

\* cls(**kw): the __init__ of the metric classes.  Keywords the class does not
\* name travel in **kwargs to tf.keras.metrics.Mean.__init__, which takes none.
New(cls, kw) ==
  LET Arg(p) == IF p \in DOMAIN kw THEN kw[p] ELSE Default(cls, p)
      Has(p) == p \in Params(cls)
      Own(p) == IF Has(p) THEN Arg(p) ELSE None
  IN  IF DOMAIN kw \subseteq Params(cls)
      THEN Outcome("ok",
             [cls   |-> cls,
              name  |-> KerasName(cls, Arg("name")),
              dtype |-> KerasDType(Arg("dtype")),
              topn  |-> Own("topn"),
              alpha |-> Own("alpha"),
              seed  |-> Own("seed"),
              impl  |-> [cls |-> cls, name |-> Arg("name"), topn |-> Own("topn"),
                         alpha |-> Own("alpha"), seed |-> Own("seed")],
              args  |-> [p \in Params(cls) |-> Arg(p)]],
             "", None)
      ELSE Outcome("TypeError", NoObject, "unexpected keyword argument", None)

\* tf.keras.metrics.Metric.get_config
base_get_config(self) == Item("name", self.name) @@ Item("dtype", self.dtype)

\* Faulty variant of get_config: the class's own entries left out
get_config_no_topn(self) == base_get_config(self)

\* get_config of each class
get_config(self) ==
  CASE self.cls \in {"MRRMetric", "PrecisionMetric", "RecallMetric", "PrecisionIAMetric"} ->
         DictUpdate(base_get_config(self), Item("topn", self.topn))
    [] self.cls \in {"MeanAveragePrecisionMetric", "NDCGMetric", "DCGMetric"} ->
         DictUpdate(Item("topn", self.topn), base_get_config(self))
    [] self.cls = "AlphaDCGMetric" ->
         DictUpdate(base_get_config(self),
                    Item("topn", self.topn) @@ Item("alpha", self.alpha)
                      @@ Item("seed", self.seed))
    [] OTHER -> base_get_config(self)

\* Faulty variants of get: a bare table lookup, and topn not handed on
get_key_error(key, name, dtype, topn, kwargs) ==
  LET metric_kwargs == DictUpdate(Item("name", name) @@ Item("dtype", dtype), kwargs)
  IN  IF key.t = "str" /\ key.s \in DOMAIN key_to_cls
      THEN New(key_to_cls[key.s], metric_kwargs)
      ELSE Outcome("KeyError", NoObject, "", key)

get_drops_topn(key, name, dtype, topn, kwargs) ==
  LET metric_kwargs == DictUpdate(Item("name", name) @@ Item("dtype", dtype), kwargs)
  IN  IF key.t # "str"
      THEN Outcome("ValueError", NoObject, "Input key needs to be string.", None)
      ELSE IF key.s \in DOMAIN key_to_cls
      THEN New(key_to_cls[key.s], metric_kwargs)
      ELSE Outcome("ValueError", NoObject, "Unsupported metric: {}", key)

\* get(key, name, dtype, topn, **kwargs)
get(key, name, dtype, topn, kwargs) ==
  LET kw0 == Item("name", name) @@ Item("dtype", dtype)
      kw1 == IF Truthy(topn) THEN DictUpdate(kw0, Item("topn", topn)) ELSE kw0
      metric_kwargs == IF DOMAIN kwargs # {} THEN DictUpdate(kw1, kwargs) ELSE kw1
  IN  IF key.t # "str"
      THEN Outcome("ValueError", NoObject, "Input key needs to be string.", None)
      ELSE IF key.s \in DOMAIN key_to_cls
      THEN New(key_to_cls[key.s], metric_kwargs)
      ELSE Outcome("ValueError", NoObject, "Unsupported metric: {}", key)

\* The domain of the model
Keys ==
  {PyStr(RankingMetricKey[f]) : f \in DOMAIN RankingMetricKey}
    \cup {PyStr("recall"), PyStr("NDCG"), PyInt(1), None}
Names == {None, PyStr(""), PyStr("m")}
DTypes == {None, PyStr("float64")}
Topns == {None, PyInt(0)} \cup {PyInt(n) : n \in 1..MaxTopn}
Kwargs == {EmptyDict, Item("seed", PyInt(1))}
Alphas == {PyFloat(3)}
Seeds == {PyInt(1)}

-----------------------------------------------------------------------------
(* Specification Spec: one metric object, constructed, then updated, read
   and reset by its caller *)

Init ==
  /\ total_weighted_value = NewTotals[1]
  /\ total_weight = NewTotals[2]
  /\ hist = <<>>
  /\ log = <<>>
  /\ metric = New("NDCGMetric", EmptyDict).obj
  /\ ret = NoRet
  /\ config = NoConfig
  /\ call = NoCall

\* metric.update_state(y_true, y_pred, sample_weight) on a batch of lists
UpdateState ==
  \E B \in 1..MaxBatch :
    /\ Len(hist) + B <= MaxHist
    /\ \E lists \in [1..B -> PerList], sample_weight \in SampleWeights(B) :
         /\ LET new == update_state(totals, lists, sample_weight)
                w == Broadcast(sample_weight, B)
            IN  /\ total_weighted_value' = new[1]
                /\ total_weight' = new[2]
                /\ hist' = hist \o [i \in 1..B |->
                             [value |-> lists[i].value, weight |-> lists[i].weight * w[i]]]
         /\ log' = Push(log, Entry("update_state", B, totals, Zero))
         /\ UNCHANGED <<metric, ret, config, call>>

\* metric.result()
Result ==
  /\ log' = Push(log, Entry("result", 0, totals, result(totals)))
  /\ UNCHANGED <<total_weighted_value, total_weight, hist, metric, ret, config, call>>

\* metric.reset_states()
ResetStates ==
  /\ total_weighted_value' = reset_states(totals)[1]
  /\ total_weight' = reset_states(totals)[2]
  /\ hist' = <<>>
  /\ log' = <<Entry("reset_states", Len(hist), NewTotals, Zero)>>
  /\ UNCHANGED <<metric, ret, config, call>>

Next == UpdateState \/ Result \/ ResetStates

Spec == Init /\ [][Next]_vars

-----------------------------------------------------------------------------
(* Claims about the streaming weighted mean (specification Spec) *)

Last(l) == l[Len(l)]
LastOp == IF log = <<>> THEN "none" ELSE Last(log).op
Ops == [i \in 1..Len(log) |-> log[i].op]
Recent(k) == SubSeq(hist, Len(hist) - k + 1, Len(hist))
SumVW(h) == RSum([i \in 1..Len(h) |-> RMul(h[i].value, FromInt(h[i].weight))])
SumW(h) == RSum([i \in 1..Len(h) |-> FromInt(h[i].weight)])
One == <<1, 1>>

\* C1: after any sequence of update, result and reset calls, total_weighted_value
\* is the sum of value_i * weight_i and total_weight the sum of weight_i over
\* exactly the per-list results of the updates since the last reset, weight_i
\* being the algorithm's weight times the external sample weight, once.
C1_TotalsAreSumsSinceReset ==
  /\ total_weighted_value = SumVW(hist)
  /\ total_weight = SumW(hist)

C1_Witness ==
  /\ Ops = <<"result", "update_state">>
  /\ Len(hist) = 3
  /\ hist[3] = [value |-> One, weight |-> 4]
  /\ hist[1].weight = 1
  /\ total_weight = <<7, 1>>

\* C2: result() returns total_weighted_value / total_weight when total_weight > 0
\* and 0 otherwise, leaves both totals as they were, and returns the same value
\* when called twice in a row; weights 2 and 1 with values 1 and 0 give 2/3.
C2_ResultIsWeightedMean ==
  /\ LastOp = "result" =>
       /\ Last(log).ret =
            IF total_weight[1] > 0
            THEN Rat(total_weighted_value[1] * total_weight[2],
                     total_weighted_value[2] * total_weight[1])
            ELSE Zero
       /\ totals = Last(log).pre
       /\ hist = <<[value |-> One, weight |-> 2], [value |-> Zero, weight |-> 1]>>
            => Last(log).ret = <<2, 3>>
  /\ Ops = <<"result", "result">> => log[1].ret = log[2].ret

C2_Witness ==
  /\ Ops = <<"result", "result">>
  /\ hist = <<[value |-> One, weight |-> 2], [value |-> Zero, weight |-> 1]>>
  /\ log[2].ret = <<2, 3>>

\* C3: two consecutive updates with parts A and B leave the totals that one
\* update with the concatenation of A and B leaves from the same state.
C3_Additivity ==
  Ops = <<"update_state", "update_state">> =>
    totals = update_state(log[1].pre, Recent(log[1].n + log[2].n), NoWeight)

C3_Witness ==
  /\ Ops = <<"update_state", "update_state">>
  /\ log[1].n = 1 /\ log[2].n = 1
  /\ log[1].pre = <<<<2, 1>>, <<2, 1>>>>
  /\ hist[2] = [value |-> One, weight |-> 4]
  /\ hist[3] = [value |-> Zero, weight |-> 1]

\* C4: reset() sets the totals to exactly (0, 0), the totals of a freshly
\* constructed object; result() right after it returns 0, and an update right
\* after it accumulates from zero.
C4_ResetLaw ==
  /\ LastOp = "reset_states" =>
       /\ totals = <<Zero, Zero>>
       /\ totals = NewTotals
  /\ Ops = <<"reset_states", "result">> => log[2].ret = Zero
  /\ Ops = <<"reset_states", "update_state">> =>
       totals = <<SumVW(Recent(log[2].n)), SumW(Recent(log[2].n))>>

C4_Witness ==
  /\ Ops = <<"reset_states", "result">>
  /\ log[1].n = 3
  /\ log[2].ret = Zero
  /\ totals = <<Zero, Zero>>

\* C5: an update whose lists all have weight 0 leaves result() as it was, and
\* adding a weight-0 list to a batch does not change result() after the batch.
Degenerate == {p \in PerList : p.weight = 0}

C5_DegenerateListsExcluded ==
  /\ (/\ LastOp = "update_state"
      /\ \A i \in 1..Last(log).n : Recent(Last(log).n)[i].weight = 0)
       => result(totals) = result(Last(log).pre)
  /\ \A x \in PerList, s \in {NoWeight, Tensor(<<2>>)} :
       LET without == result(update_state(totals, <<x>>, s))
       IN  \A d \in Degenerate :
             /\ result(update_state(totals, <<x, d>>, s)) = without
             /\ result(update_state(totals, <<d, x>>, s)) = without

C5_Witness ==
  /\ LastOp = "update_state"
  /\ Last(log).n = 2
  /\ Len(hist) = 3
  /\ hist[2] = [value |-> One, weight |-> 0]
  /\ hist[3] = [value |-> Zero, weight |-> 0]
  /\ hist[1] = [value |-> One, weight |-> 2]
  /\ result(totals) = One

-----------------------------------------------------------------------------
(* Specification SpecFactory: one object from the factory or a constructor,
   its configuration read and a new object built from it *)

\* A call of the caller: what was called, with what, and what came of it
Called(op, in, out, pre) ==
  [op |-> op, in |-> in, kind |-> out.kind, msg |-> out.msg, arg |-> out.arg, pre |-> pre]

FInit ==
  /\ total_weighted_value = NewTotals[1]
  /\ total_weight = NewTotals[2]
  /\ hist = <<>>
  /\ log = <<>>
  /\ metric = NoObject
  /\ ret = NoRet
  /\ config = NoConfig
  /\ call = NoCall

\* metric = get(key, name, dtype, topn, **kwargs)
Get ==
  /\ ret = NoRet
  /\ \E key \in Keys, name \in Names, dtype \in DTypes, topn \in Topns, kwargs \in Kwargs :
       LET out == get(key, name, dtype, topn, kwargs)
       IN  /\ metric' = out.obj
           /\ ret' = Called("get", [key |-> key, name |-> name, dtype |-> dtype,
                                    topn |-> topn, kwargs |-> kwargs], out, totals)
  /\ UNCHANGED <<total_weighted_value, total_weight, hist, log, config, call>>

\* metric = cls(**kw)
Construct ==
  /\ ret = NoRet
  /\ \E cls \in Classes :
       \E name \in Names \cup {Absent}, dtype \in {Absent, PyStr("float64")},
          topn \in (Topns \ {PyInt(0)}) \cup {Absent},
          alpha \in Alphas \cup {Absent}, seed \in Seeds \cup {Absent} :
         LET all == Item("name", name) @@ Item("dtype", dtype) @@ Item("topn", topn)
                      @@ Item("alpha", alpha) @@ Item("seed", seed)
             kw == [p \in {q \in DOMAIN all : all[q] # Absent} |-> all[p]]
             out == New(cls, kw)
         IN  /\ metric' = out.obj
             /\ ret' = Called("construct", [cls |-> cls, kw |-> kw], out, totals)
  /\ UNCHANGED <<total_weighted_value, total_weight, hist, log, config, call>>

\* metric.update_state(...) with one list, once per object
UpdateOnce ==
  /\ metric # NoObject
  /\ hist = <<>>
  /\ \E x \in PerList :
       LET new == update_state(totals, <<x>>, NoWeight)
       IN  /\ total_weighted_value' = new[1]
           /\ total_weight' = new[2]
           /\ hist' = <<x>>
  /\ ret' = [ret EXCEPT !.op = "update_state", !.pre = totals]
  /\ UNCHANGED <<log, metric, config, call>>

\* config = metric.get_config()
GetConfig ==
  /\ metric # NoObject
  /\ config' = [cls |-> metric.cls, rec |-> get_config(metric)]
  /\ ret' = [ret EXCEPT !.op = "get_config", !.pre = totals]
  /\ UNCHANGED <<total_weighted_value, total_weight, hist, log, metric, call>>

\* metric = cls(**config), a new object of the class the record came from
FromConfig ==
  /\ config # NoConfig
  /\ ret.op = "get_config"
  /\ LET out == New(config.cls, config.rec)
     IN  /\ metric' = out.obj
         /\ ret' = [ret EXCEPT !.op = "from_config", !.kind = out.kind, !.pre = totals]
  /\ total_weighted_value' = NewTotals[1]
  /\ total_weight' = NewTotals[2]
  /\ hist' = <<>>
  /\ UNCHANGED <<log, config, call>>

FNext == Get \/ Construct \/ UpdateOnce \/ GetConfig \/ FromConfig

SpecFactory == FInit /\ [][FNext]_vars

-----------------------------------------------------------------------------
(* Claims about the factory and the classes (specification SpecFactory) *)

SupportedKinds ==
  {"mrr", "arp", "precision", "map", "ndcg", "dcg", "ordered_pair_accuracy"}
CutoffKinds == {"mrr", "precision", "map", "ndcg", "dcg"}
Hyperparameters == {"name", "topn", "alpha", "seed"}

\* C6: get fails with a ValueError for every key that is not a supported metric
\* kind: a string outside the table yields an error naming the key, a
\* non-string key yields an error too, and no metric object is returned.
C6_UnsupportedKeyIsValueError ==
  ret.op = "get" =>
    LET key == ret.in.key
    IN  /\ key.t # "str" => ret.kind = "ValueError" /\ metric = NoObject
        /\ (key.t = "str" /\ key.s \notin SupportedKinds) =>
             /\ ret.kind = "ValueError"
             /\ ret.msg = "Unsupported metric: {}"
             /\ ret.arg = key
             /\ metric = NoObject

C6_Witness ==
  /\ ret.op = "get"
  /\ ret.in.key = PyStr("recall")
  /\ ret.in.topn = PyInt(1)
  /\ ret.kind = "ValueError"
  /\ ret.arg = PyStr("recall")
  /\ metric = NoObject

\* C7 as stated: get_config() returns a record holding exactly the
\* hyperparameters the object was constructed with (name, topn, alpha, seed),
\* leaves the totals alone, and a new object of the class built from the
\* record has that record as its get_config().
C7_Original ==
  /\ ret.op = "get_config" =>
       /\ config.cls = metric.cls
       /\ DOMAIN config.rec = Params(metric.cls)
       /\ \A p \in Params(metric.cls) \cap Hyperparameters :
            config.rec[p] = metric.args[p]
       /\ totals = ret.pre
  /\ ret.op = "from_config" =>
       /\ ret.kind = "ok"
       /\ metric.cls = config.cls
       /\ get_config(metric) = config.rec

\* C7 as amended: the record holds name, dtype and the hyperparameters of the
\* class; topn, alpha and seed are the ones the object was constructed with,
\* and so is the name when a non-empty one was given (with name None or the
\* empty string the record holds the name the Keras base class made up); the
\* totals are left alone, and a new object of the class built from the
\* record has that record as its get_config().
C7_ConfigRoundTrip ==
  /\ ret.op = "get_config" =>
       /\ config.cls = metric.cls
       /\ DOMAIN config.rec = Params(metric.cls)
       /\ \A p \in Params(metric.cls) \cap (Hyperparameters \ {"name"}) :
            config.rec[p] = metric.args[p]
       /\ metric.args["name"] \notin {None, PyStr("")} =>
            config.rec["name"] = metric.args["name"]
       /\ metric.args["name"] \in {None, PyStr("")} =>
            config.rec["name"] = AutoName(SnakeCase(metric.cls))
       /\ totals = ret.pre
  /\ ret.op = "from_config" =>
       /\ ret.kind = "ok"
       /\ metric.cls = config.cls
       /\ get_config(metric) = config.rec

C7_Witness ==
  /\ ret.op = "from_config"
  /\ ret.kind = "ok"
  /\ ret.pre = <<<<2, 1>>, <<2, 1>>>>
  /\ metric.cls = "AlphaDCGMetric"
  /\ config.rec = Item("name", PyStr("m")) @@ Item("dtype", PyStr("float32"))
                    @@ Item("topn", PyInt(2)) @@ Item("alpha", PyFloat(3))
                    @@ Item("seed", PyInt(1))
  /\ get_config(metric) = config.rec
  /\ totals = NewTotals

HasCutoff(n) ==
  /\ ret.kind = "ok"
  /\ metric.topn = n
  /\ metric.impl.topn = n
  /\ "topn" \in DOMAIN get_config(metric)
  /\ get_config(metric)["topn"] = n

\* C9 as stated: for every supported key and every positive integer n,
\* get(key, topn=n) returns a metric whose cutoff is n and whose configuration
\* reports topn = n; with topn absent the cutoff is unbounded.
C9_Original ==
  (/\ ret.op = "get"
   /\ ret.in.key.t = "str" /\ ret.in.key.s \in SupportedKinds
   /\ ret.in.kwargs = EmptyDict) =>
    /\ (ret.in.topn.t = "int" /\ ret.in.topn.i > 0) => HasCutoff(ret.in.topn)
    /\ ret.in.topn = None => ret.kind = "ok" /\ metric.impl.topn = None

\* C9 as amended: the same for the keys whose class takes a cutoff (mrr,
\* precision, map, ndcg, dcg); for arp and ordered_pair_accuracy, whose classes
\* take none, get(key, topn=n) raises a TypeError and returns no object; with
\* topn absent every supported key yields a metric with an unbounded cutoff.
C9_CutoffOfFactoryMetric ==
  (/\ ret.op = "get"
   /\ ret.in.key.t = "str" /\ ret.in.key.s \in SupportedKinds
   /\ ret.in.kwargs = EmptyDict) =>
    /\ (ret.in.topn.t = "int" /\ ret.in.topn.i > 0) =>
         IF ret.in.key.s \in CutoffKinds
         THEN HasCutoff(ret.in.topn)
         ELSE ret.kind = "TypeError" /\ metric = NoObject
    /\ ret.in.topn = None => ret.kind = "ok" /\ metric.impl.topn = None

C9_Witness ==
  /\ ret.op = "get"
  /\ ret.in.key = PyStr("ndcg")
  /\ ret.in.topn = PyInt(2)
  /\ ret.in.kwargs = EmptyDict
  /\ ret.kind = "ok"
  /\ metric.cls = "NDCGMetric"
  /\ metric.impl.topn = PyInt(2)
  /\ get_config(metric)["topn"] = PyInt(2)

\* The class each declared key stands for
ClassOfKey(k) ==
  CASE k = "mrr" -> "MRRMetric"
    [] k = "arp" -> "ARPMetric"
    [] k = "ndcg" -> "NDCGMetric"
    [] k = "dcg" -> "DCGMetric"
    [] k = "precision" -> "PrecisionMetric"
    [] k = "map" -> "MeanAveragePrecisionMetric"
    [] k = "precision_ia" -> "PrecisionIAMetric"
    [] k = "ordered_pair_accuracy" -> "OPAMetric"
    [] k = "alpha_dcg" -> "AlphaDCGMetric"

\* C10: every key string declared in RankingMetricKey is accepted by get:
\* get(key) returns an object of the corresponding class and never raises the
\* unsupported-metric error.
C10_EveryDeclaredKeyAccepted ==
  (/\ ret.op = "get"
   /\ ret.in.key.t = "str"
   /\ ret.in.key.s \in {RankingMetricKey[f] : f \in DOMAIN RankingMetricKey}
   /\ ret.in.topn = None
   /\ ret.in.kwargs = EmptyDict) =>
    /\ ret.kind = "ok"
    /\ metric.cls = ClassOfKey(ret.in.key.s)

-----------------------------------------------------------------------------
(* The per-list NDCG algorithm bound by NDCGMetric *)

\* _DEFAULT_GAIN_FN: 2 ** label - 1
DEFAULT_GAIN_FN(label) == 2 ^ label - 1

\* Faulty variant of the discount: log1p(rank) / log(2), in millionths
DEFAULT_RANK_DISCOUNT_FN_inverted(rank) ==
  CASE rank = 1 -> 1000000
    [] rank = 2 -> 1584963
    [] rank = 3 -> 2000000
    [] rank = 4 -> 2321928
    [] rank = 5 -> 2584963
    [] OTHER -> 2807355

\* log(2) / log1p(rank) in millionths, rounded to nearest, for the ranks
\* 1, 2, ... in order
DiscountTable ==
  << 1000000, 630930, 500000, 430677, 386853, 356207, 333333, 315465,
     301030, 289065, 278943, 270238, 262650, 255958, 250000, 244651,
     239812, 235409, 231378, 227670, 224244, 221065, 218104, 215338,
     212746, 210310, 208015, 205847, 203795, 201849, 200000, 198240,
     196562, 194959, 193426, 191959, 190551, 189200, 187902, 186652,
     185449, 184289, 183169, 182088, 181043, 180031, 179052, 178104,
     177184, 176291, 175425, 174583, 173765, 172970, 172195, 171442,
     170707, 169992, 169294, 168613, 167949, 167300, 166667, 166048,
     165443, 164851, 164272, 163706, 163151, 162608, 162077, 161555,
     161045, 160544, 160053, 159571, 159099, 158635, 158180, 157732,
     157293, 156862, 156438, 156021, 155611, 155209, 154812, 154423,
     154039, 153662, 153290, 152925, 152565, 152210, 151861, 151517,
     151178, 150844, 150515, 150190, 149871, 149555, 149244, 148937,
     148634, 148336, 148041, 147750, 147463, 147180, 146900, 146624,
     146351, 146082, 145816, 145553, 145293, 145036, 144783, 144532,
     144285, 144040, 143798, 143559, 143322, 143088, 142857, 142628 >>

\* _DEFAULT_RANK_DISCOUNT_FN: log(2) / log1p(rank), in millionths.  Ranks are
\* positions of a list, counted from 1; the operator is defined on the ranks
\* of DiscountTable and has no value outside them.
DEFAULT_RANK_DISCOUNT_FN(rank) == DiscountTable[rank]

\* An item is valid unless its label is the padding sentinel (below zero)
IsValid(label) == label >= 0

Orders(n) == {p \in [1..n -> 1..n] : \A i, j \in 1..n : p[i] = p[j] => i = j}

\* The orders a sort by descending key can give: valid items first, by
\* non-increasing key, ties in any order; invalid items after them
RankOrders(keys, labels) ==
  LET n == Len(keys)
  IN  {p \in Orders(n) :
         \A i, j \in 1..n : i < j =>
           \/ ~IsValid(labels[p[j]])
           \/ IsValid(labels[p[i]]) /\ keys[p[i]] >= keys[p[j]]}

RECURSIVE SumTo(_, _)
SumTo(f, k) == IF k = 0 THEN 0 ELSE f[k] + SumTo(f, k - 1)

\* The number of valid items of a list
ValidCount(labels) == Cardinality({i \in 1..Len(labels) : IsValid(labels[i])})

\* The number of positions a metric looks at: topn, or all valid items
Cutoff(labels, topn) ==
  IF topn = None THEN ValidCount(labels) ELSE Min(topn.i, ValidCount(labels))

\* The labels of the top positions of the list put in a given order
TopLabels(p, labels, topn) == [r \in 1..Cutoff(labels, topn) |-> labels[p[r]]]

\* What a sort by descending key may return: the labels of the top
\* positions, in rank order
sort_by_scores(keys, labels, topn) ==
  {TopLabels(p, labels, topn) : p \in RankOrders(keys, labels)}

\* DCG of sorted labels: sum over the positions of gain(label) * discount(rank)
DCG(sorted) ==
  SumTo([r \in 1..Len(sorted) |->
           DEFAULT_GAIN_FN(sorted[r]) * DEFAULT_RANK_DISCOUNT_FN(r)], Len(sorted))

\* NDCG: DCG in the order of the scores over DCG in the order of the labels,
\* 0 when the latter is 0; a list with no valid item or a single one is
\* degenerate and has the value 0
NDCG(sorted, ideal, labels) ==
  IF ValidCount(labels) <= 1 THEN Zero
  ELSE IF DCG(ideal) = 0 THEN Zero
  ELSE Rat(DCG(sorted), DCG(ideal))

-----------------------------------------------------------------------------
(* Specification SpecNDCG: one list through the NDCG algorithm *)

\* The domain of the model: lists of up to MaxListSize items with the item
\* weights at their default 1.0
Labels == {-1, 0, 2, 3}
Scores == {5, 7, 9}      \* in tenths

NInit ==
  /\ total_weighted_value = NewTotals[1]
  /\ total_weight = NewTotals[2]
  /\ hist = <<>>
  /\ log = <<>>
  /\ metric = NoObject
  /\ ret = NoRet
  /\ config = NoConfig
  /\ \E n \in 0..MaxListSize :
       \E labels \in [1..n -> Labels],
          scores \in [1..n -> Scores],
          topn \in {None} \cup {PyInt(k) : k \in 1..MaxTopn} :
         call = [pc |-> "start", labels |-> labels, scores |-> scores,
                 topn |-> topn, order |-> <<>>,
                 sorted |-> <<>>, ideal |-> <<>>, value |-> Zero]

\* One list through the algorithm; the sorts break ties as they please
ComputeNDCG ==
  /\ call.pc = "start"
  /\ \E p \in RankOrders(call.scores, call.labels),
        ideal \in sort_by_scores(call.labels, call.labels, call.topn) :
       LET sorted == TopLabels(p, call.labels, call.topn)
       IN  call' = [call EXCEPT !.pc = "done", !.order = p, !.sorted = sorted,
                      !.ideal = ideal,
                      !.value = NDCG(sorted, ideal, call.labels)]
  /\ UNCHANGED <<total_weighted_value, total_weight, hist, log, metric, ret, config>>

NNext == ComputeNDCG

SpecNDCG == NInit /\ [][NNext]_vars

-----------------------------------------------------------------------------
(* Claims about NDCG (specification SpecNDCG) *)

InUnitInterval(v) == 0 <= v[1] /\ v[1] <= v[2]

\* No item of the list is relevant: the case in which the ideal DCG is 0
NoRelevant(labels) == \A i \in 1..Len(labels) : labels[i] <= 0

\* The order the scores gave puts the valid items by descending label
OrderIsIdeal ==
  \A i, j \in 1..ValidCount(call.labels) :
    i < j => call.labels[call.order[i]] >= call.labels[call.order[j]]

====
